---- MODULE Spec2Model ----
(***************************************************************************)
(* Upstream node-state reconciler of ote-stack                             *)
(* (pkg/controllermanager/node_processor.go).                              *)
(*                                                                         *)
(* A process is one caller of handleNodeReport.  Every call of the         *)
(* registry client (Get, Create, Update, Delete) is one atomic step of     *)
(* the shared registry; the code between two registry calls is local to    *)
(* the caller and is folded into the step of the call that follows or      *)
(* precedes it.                                                            *)
(***************************************************************************)
EXTENDS Integers, Sequences, FiniteSets, Bags, TLC

\* ------------------------------------------------------------ bounds
MaxVer == 3          \* edge-version labels "1" .. "MaxVer" are offered
MaxReports == 3      \* envelopes delivered in one behaviour
MaxFaults == 1       \* registry calls that fail with a store error

\* ------------------------------------------------------------ universe
Procs == {"p1", "p2"}
Names == {"n1", "n2", "n3"}
Keys == {"k1", "k2", "k3"}

Nil == [nil |-> TRUE]          \* a nil *corev1.Node, a nil map, no value
Absent == [absent |-> TRUE]    \* no record under a name

\* ------------------------------------------------------------ strconv
Digits == <<"0", "1", "2", "3", "4", "5", "6", "7", "8", "9">>

IsDigit(c) == \E i \in 1..10 : Digits[i] = c

DigitVal(c) == (CHOOSE i \in 1..10 : Digits[i] = c) - 1

RECURSIVE ParseUint(_, _)
ParseUint(s, acc) ==
    IF s = <<>> THEN acc
    ELSE ParseUint(Tail(s), acc * 10 + DigitVal(Head(s)))

\* strconv.Atoi on a string given as its sequence of characters: an optional
\* sign, then one or more decimal digits; anything else is a syntax error.
\* (The labels offered are at most two characters, far inside int's range.)
Atoi(s) ==
    LET signed == s # <<>> /\ Head(s) \in {"+", "-"}
        body == IF signed THEN Tail(s) ELSE s
    IN  IF body = <<>> \/ \E i \in 1..Len(body) : ~IsDigit(body[i])
        THEN [err |-> "ParseError", val |-> 0]
        ELSE [err |-> "",
              val |-> IF signed /\ Head(s) = "-"
                      THEN 0 - ParseUint(body, 0)
                      ELSE ParseUint(body, 0)]

RECURSIVE Itoa(_)
Itoa(n) ==
    IF n < 10 THEN <<Digits[n + 1]>>
    ELSE Itoa(n \div 10) \o <<Digits[(n % 10) + 1]>>

\* ------------------------------------------------------------ node records
\* A node as far as this file reads it: ObjectMeta.Name, the edge-version
\* label (a string, <<>> when the label is missing or empty),
\* ObjectMeta.ResourceVersion (0 is the empty token) and the rest of the
\* object (spec and status), kept as one opaque value.
MkNode(name, label, status) ==
    [name |-> name, label |-> label, status |-> status, rv |-> 0]

\* Name under which an envelope entry cannot be resolved to a registry key.
NoName == ""

\* UniqueResourceName(&node.ObjectMeta): fails when the identifying metadata
\* does not resolve to a key, else the node carries its registry key as Name.
UniqueResourceName(node) ==
    IF node.name = NoName
    THEN [err |-> "IdentityError", node |-> node]
    ELSE [err |-> "", node |-> node]

\* ------------------------------------------------------------ registry client
\* Nodes().Get(name): the stored node, NotFound, or another failure.
GetResults(reg, name) ==
    {[err |-> "StoreError", node |-> Nil]} \cup
    {IF reg[name] = Absent
     THEN [err |-> "NotFound", node |-> Nil]
     ELSE [err |-> "", node |-> reg[name]]}

\* Variant: a Create under a name already taken replaces the record.
CreateResults_Overwrite(reg, fresh, node) ==
    {[err |-> "StoreError", reg |-> reg]} \cup
    {[err |-> "",
      reg |-> [reg EXCEPT ![node.name] = [node EXCEPT !.rv = fresh]]]}

\* Nodes().Create(node): stores the node under a fresh token; a name already
\* taken is refused (AlreadyExists, which is not a conflict).
CreateResults(reg, fresh, node) ==
    {[err |-> "StoreError", reg |-> reg]} \cup
    {IF reg[node.name] # Absent
     THEN [err |-> "AlreadyExists", reg |-> reg]
     ELSE [err |-> "",
           reg |-> [reg EXCEPT ![node.name] = [node EXCEPT !.rv = fresh]]]}

\* Nodes().Update(node): the write is refused with Conflict when the token
\* sent is not the stored one; an empty token asks for an unconditional write.
UpdateResults(reg, fresh, node) ==
    {[err |-> "StoreError", reg |-> reg]} \cup
    {IF reg[node.name] = Absent
     THEN [err |-> "NotFound", reg |-> reg]
     ELSE IF node.rv # 0 /\ node.rv # reg[node.name].rv
     THEN [err |-> "Conflict", reg |-> reg]
     ELSE [err |-> "",
           reg |-> [reg EXCEPT ![node.name] = [node EXCEPT !.rv = fresh]]]}

\* Variant: a record whose edge-version is above the first is kept.
DeleteResults_Gated(reg, name) ==
    {[err |-> "StoreError", reg |-> reg]} \cup
    {IF reg[name] = Absent
     THEN [err |-> "NotFound", reg |-> reg]
     ELSE IF Atoi(reg[name].label).err = "" /\ Atoi(reg[name].label).val > 1
     THEN [err |-> "StaleVersion", reg |-> reg]
     ELSE [err |-> "", reg |-> [reg EXCEPT ![name] = Absent]]}

\* Nodes().Delete(name, &DeleteOptions{}): no precondition on the record.
DeleteResults(reg, name) ==
    {[err |-> "StoreError", reg |-> reg]} \cup
    {IF reg[name] = Absent
     THEN [err |-> "NotFound", reg |-> reg]
     ELSE [err |-> "", reg |-> [reg EXCEPT ![name] = Absent]]}

\* errors.IsNotFound / errors.IsConflict
IsNotFound(err) == err = "NotFound"

IsConflict(err) == err = "Conflict"

\* ------------------------------------------------------------ version gate
\* Variant: the comparison of line 179 written with < instead of <=.
checkNodeEdgeVersion_AllowEqual(node, storedNode) ==
    IF node.label = <<>> \/ storedNode.label = <<>> THEN "EmptyVersion"
    ELSE IF Atoi(node.label).err # "" THEN "ParseError"
    ELSE IF Atoi(storedNode.label).err # "" THEN "ParseError"
    ELSE IF Atoi(node.label).val < Atoi(storedNode.label).val
    THEN "StaleVersion"
    ELSE ""

\* Variant: only the incoming label is checked; a stored label that is
\* missing or no number counts as version 0.
checkNodeEdgeVersion_IgnoreStored(node, storedNode) ==
    IF node.label = <<>> THEN "EmptyVersion"
    ELSE IF Atoi(node.label).err # "" THEN "ParseError"
    ELSE IF Atoi(node.label).val <= Atoi(storedNode.label).val
    THEN "StaleVersion"
    ELSE ""

\* checkNodeEdgeVersion(node, storedNode): "" when the incoming node may
\* replace the stored one, else the reason of the refusal.
checkNodeEdgeVersion(node, storedNode) ==
    IF node.label = <<>> \/ storedNode.label = <<>> THEN "EmptyVersion"
    ELSE IF Atoi(node.label).err # "" THEN "ParseError"
    ELSE IF Atoi(storedNode.label).err # "" THEN "ParseError"
    ELSE IF Atoi(node.label).val <= Atoi(storedNode.label).val
    THEN "StaleVersion"
    ELSE ""

VersionErrors == {"EmptyVersion", "ParseError", "StaleVersion"}

\* Variant: line 131 left out, the node is sent with the token it came with.
OutgoingNode_NoToken(node, storedNode) == node

\* Variant: the token is set only when the node carries none yet.
OutgoingNode_KeepToken(node, storedNode) ==
    IF node.rv # 0 THEN node ELSE [node EXCEPT !.rv = storedNode.rv]

\* Variant: the stored node is sent back with the incoming label alone.
OutgoingNode_Merge(node, storedNode) ==
    [storedNode EXCEPT !.label = node.label]

\* Variant: the token sent is never the one of the node just read.
OutgoingNode_WrongToken(node, storedNode) ==
    [node EXCEPT !.rv = storedNode.rv + 1]

\* UpdateNode, line 131: the node sent carries the token of the node just read.
OutgoingNode(node, storedNode) == [node EXCEPT !.rv = storedNode.rv]

\* Variant: one retry, then the conflict is returned.
AfterUpdateError_Bounded(err, n) ==
    IF IsConflict(err) /\ n < 1 THEN "retry" ELSE "return"

\* UpdateNode, lines 135-141: where UpdateNode goes after a failed write; n
\* is the number of conflicts met so far, which the code does not count.
AfterUpdateError(err, n) == IF IsConflict(err) THEN "retry" ELSE "return"

\* CreateOrUpdateNode, lines 150-160: where it goes after its Get.
AfterFirstGet(err) ==
    IF IsNotFound(err) THEN "create"
    ELSE IF err # "" THEN "return"
    ELSE "updateNode"

\* UpdateNode, lines 121-124: where it goes after its own Get.
AfterUpdateGet(err) == IF err # "" THEN "return" ELSE "check"

\* ------------------------------------------------------------ envelopes
\* The bytes of an envelope: malformed, or the JSON of a NodeResourceStatus
\* with its three optional fields (Nil when the field is missing).  A
\* mapping sends keys to nodes; a JSON null under a key is a nil node.
Malformed == [ok |-> FALSE]

Encode(full, upd, del) ==
    [ok |-> TRUE, doc |-> [full |-> full, upd |-> upd, del |-> del]]

\* NodeReportStatusDeserialize(b): json.Unmarshal into a NodeResourceStatus.
NodeReportStatusDeserialize(b) ==
    IF b.ok THEN [err |-> "", nrs |-> b.doc]
    ELSE [err |-> "DecodeError", nrs |-> Nil]

MapKeys(m) == IF m = Nil THEN {} ELSE DOMAIN m

\* Variant: a report without an update mapping has the nodes of its full
\* list applied as updates.
UpdateMapOf_WithFull(r) ==
    IF r.upd = Nil /\ r.full # Nil /\ r.full.list # <<>>
    THEN [k \in {"k1"} |-> r.full.list[1]]
    ELSE r.upd

\* handleNodeReport, lines 38-45: the mapping handed to handleNodeUpdateMap
\* is nrs.UpdateMap; nrs.FullList is tested and nothing is done with it.
UpdateMapOf(r) == r.upd

\* ------------------------------------------------------------ state
VARIABLES
    registry,     \* name -> stored node, or Absent
    nextRV,       \* the token the registry assigns to its next write
    received,     \* envelopes delivered so far
    faults,       \* registry calls failed with a store error so far
    pc,           \* where each process stands
    nrs,          \* the decoded report each process is handling, or Nil
    updLeft,      \* keys of UpdateMap not yet ranged over
    delLeft,      \* keys of DelMap not yet ranged over
    key,          \* the key of the entry in hand
    node,         \* the node in hand (argument of CreateOrUpdateNode)
    tries,        \* conflicts met by the UpdateNode call in progress
    ret,          \* what handleNodeReport returned last
    log,          \* the lines logged for the current report, as a bag:
                  \*   one line per entry handled, with its outcome
    prev,         \* the line of the CreateOrUpdateNode call that ended last
    lastCall,     \* history: the last registry call of the
                  \*   CreateOrUpdateNode or DeleteNode call in progress
    lastCommit,   \* history: per name, the label of the last Create/Update
                  \*   committed, or Nil
    quiet,        \* history: no other process has called the registry on
                  \*   the node of p's last CreateOrUpdateNode since it ended
    dup           \* history: set while p repeats its last CreateOrUpdateNode

vars == <<registry, nextRV, received, faults, pc, nrs, updLeft, delLeft, key, node,
          tries, ret, log, prev, lastCall, lastCommit, quiet, dup>>

NoCall == [op |-> "", name |-> "", err |-> "", node |-> Nil]

\* The registry is shared: it is empty, or holds n1 from an earlier writer.
Stored0 == [name |-> "n1", label |-> Itoa(0), status |-> "s0", rv |-> 1]

Init ==
    /\ registry \in {[n \in Names |-> Absent],
                     [n \in Names |-> IF n = "n1" THEN Stored0 ELSE Absent]}
    /\ nextRV = 2
    /\ received = 0
    /\ faults = 0
    /\ pc = [p \in Procs |-> "idle"]
    /\ nrs = [p \in Procs |-> Nil]
    /\ updLeft = [p \in Procs |-> {}]
    /\ delLeft = [p \in Procs |-> {}]
    /\ key = [p \in Procs |-> ""]
    /\ node = [p \in Procs |-> Nil]
    /\ tries = [p \in Procs |-> 0]
    /\ ret = [p \in Procs |-> ""]
    /\ log = [p \in Procs |-> EmptyBag]
    /\ prev = [p \in Procs |-> Nil]
    /\ lastCall = [p \in Procs |-> NoCall]
    /\ lastCommit = [n \in Names |->
                        IF registry[n] = Absent THEN Nil
                        ELSE [label |-> registry[n].label]]
    /\ quiet = [p \in Procs |-> FALSE]
    /\ dup = [p \in Procs |-> Nil]

\* ------------------------------------------------------------ history
InUpsert(q) == pc[q] \in {"create", "updateNode", "update"}

\* A log line: the map and key of the entry and how it ended: "created",
\* "updated" or "deleted" (the three success messages, lines 114, 143, 68),
\* or the error logged at lines 58, 64, 76, 82.
Line(map, k, outcome) == [map |-> map, key |-> k, outcome |-> outcome]

Applied == {"created", "updated"}

Logged(q, line) == log' = [log EXCEPT ![q] = @ (+) SetToBag({line})]

\* The CreateOrUpdateNode call process q finished last in its current report.
HasPrev(q) == prev[q] # Nil

PrevEntry(q) == nrs[q].upd[prev[q].key]

\* quiet and dup after a registry call of p on name n; `done` says that the
\* call ends p's CreateOrUpdateNode, `mine` is p's own dup afterwards.
QuietAfter(p, n, done) ==
    [q \in Procs |->
        IF q = p THEN done
        ELSE IF quiet[q] /\ HasPrev(q) /\ PrevEntry(q).name = n THEN FALSE
        ELSE quiet[q]]

DupAfter(p, n, mine) ==
    [q \in Procs |->
        IF q = p THEN mine
        ELSE IF InUpsert(q) /\ node[q].name = n THEN Nil
        ELSE dup[q]]

Call(op, name, r) ==
    [op |-> op, name |-> name, err |-> r.err,
     node |-> IF op = "Get" THEN r.node ELSE Nil]

\* The registry call answers r; store errors are counted and capped.
Answer(r) ==
    /\ r.err = "StoreError" => faults < MaxFaults
    /\ faults' = IF r.err = "StoreError" THEN faults + 1 ELSE faults

\* p has made registry call c; `ends` says that the call of
\* CreateOrUpdateNode or DeleteNode it belongs to returns with it.
Called(p, c, ends) ==
    lastCall' = [lastCall EXCEPT ![p] = IF ends THEN NoCall ELSE c]

Commit(n, label) ==
    lastCommit' = [lastCommit EXCEPT ![n] = [label |-> label]]

\* Variant: an entry that fails ends the range loop.
LoopAfter_Break(outcome) ==
    IF outcome \in Applied THEN "updateMap" ELSE "delMap"

\* handleNodeUpdateMap, lines 75-84: after an entry, failed or not, the
\* range loop goes on with the next one.
LoopAfter(outcome) == "updateMap"

\* CreateOrUpdateNode of process p, called for the entry under key k, returns
\* `outcome`: handleNodeUpdateMap logs it and its range loop goes on.
UpsertReturns(p, k, outcome) ==
    /\ pc' = [pc EXCEPT ![p] = LoopAfter(outcome)]
    /\ Logged(p, Line("upd", k, outcome))
    /\ prev' = [prev EXCEPT ![p] = Line("upd", k, outcome)]
    /\ updLeft' = [updLeft EXCEPT ![p] = @ \ {k}]
    /\ key' = [key EXCEPT ![p] = ""]
    /\ node' = [node EXCEPT ![p] = Nil]

\* ------------------------------------------------------------ handleNodeReport
\* Lines 32-41: decode; a decode failure returns at once; FullList is read
\* and nothing is done with it.
HandleNodeReport(p, b) ==
    /\ pc[p] = "idle"
    /\ received < MaxReports
    /\ received' = received + 1
    /\ LET d == NodeReportStatusDeserialize(b) IN
        IF d.err # ""
        THEN /\ ret' = [ret EXCEPT ![p] = d.err]
             /\ UNCHANGED <<pc, nrs, updLeft, delLeft>>
        ELSE /\ ret' = [ret EXCEPT ![p] = ""]
             /\ nrs' = [nrs EXCEPT ![p] = d.nrs]
             /\ pc' = [pc EXCEPT ![p] = "updateMap"]
             /\ updLeft' = [updLeft EXCEPT ![p] = MapKeys(UpdateMapOf(d.nrs))]
             /\ delLeft' = [delLeft EXCEPT ![p] = MapKeys(d.nrs.del)]
    /\ UNCHANGED <<registry, nextRV, faults, key, node, tries, log, prev,
                   lastCall, lastCommit, quiet, dup>>

\* handleNodeUpdateMap, lines 73-84, one turn of the range loop up to the
\* first registry call of CreateOrUpdateNode (line 150).  The loop takes the
\* keys in any order.  &node.ObjectMeta on a nil node panics.
UpdateMapEntry(p) ==
    /\ pc[p] = "updateMap"
    /\ \E k \in updLeft[p] :
        LET e == UpdateMapOf(nrs[p])[k] IN
        IF e = Nil
        THEN /\ pc' = [pc EXCEPT ![p] = "panicked"]
             /\ UNCHANGED <<registry, nextRV, received, faults, nrs, updLeft,
                            delLeft, key, node, tries, ret, log, prev,
                            lastCall, lastCommit, quiet, dup>>
        ELSE LET u == UniqueResourceName(e) IN
        IF u.err # ""
        THEN /\ Logged(p, Line("upd", k, u.err))
             /\ pc' = [pc EXCEPT ![p] = LoopAfter(u.err)]
             /\ prev' = [prev EXCEPT ![p] = Nil]
             /\ updLeft' = [updLeft EXCEPT ![p] = @ \ {k}]
             /\ dup' = [dup EXCEPT ![p] = Nil]
             /\ quiet' = [quiet EXCEPT ![p] = FALSE]
             /\ UNCHANGED <<registry, nextRV, received, faults, nrs, delLeft,
                            key, node, tries, ret, lastCall, lastCommit>>
        ELSE \E r \in GetResults(registry, u.node.name) :
             /\ Answer(r)
             /\ Called(p, Call("Get", u.node.name, r),
                       AfterFirstGet(r.err) = "return")
             /\ dup' = DupAfter(p, u.node.name,
                          IF quiet[p] /\ HasPrev(p) /\ PrevEntry(p) = e
                          THEN [first |-> prev[p].outcome,
                                snap |-> registry[u.node.name]]
                          ELSE Nil)
             /\ tries' = [tries EXCEPT ![p] = 0]
             /\ IF AfterFirstGet(r.err) = "return"
                THEN /\ UpsertReturns(p, k, r.err)
                     /\ quiet' = QuietAfter(p, u.node.name, TRUE)
                ELSE /\ pc' = [pc EXCEPT ![p] = AfterFirstGet(r.err)]
                     /\ key' = [key EXCEPT ![p] = k]
                     /\ node' = [node EXCEPT ![p] = u.node]
                     /\ quiet' = QuietAfter(p, u.node.name, FALSE)
                     /\ prev' = [prev EXCEPT ![p] = Nil]
                     /\ UNCHANGED <<updLeft, log>>
             /\ UNCHANGED <<registry, nextRV, received, nrs, delLeft, ret,
                            lastCommit>>

\* Variant: a Create is refused when the last edge-version committed under
\* the name, now deleted, is a number not below the node's.
CreateNode_Lineage(p) ==
    /\ pc[p] = "create"
    /\ \E r \in IF /\ lastCommit[node[p].name] # Nil
                   /\ Atoi(lastCommit[node[p].name].label).err = ""
                   /\ Atoi(node[p].label).err = ""
                   /\ Atoi(node[p].label).val
                        <= Atoi(lastCommit[node[p].name].label).val
                THEN {[err |-> "StaleVersion", reg |-> registry]}
                ELSE CreateResults(registry, nextRV, node[p]) :
        /\ Answer(r)
        /\ registry' = r.reg
        /\ Called(p, Call("Create", node[p].name, r), TRUE)
        /\ dup' = DupAfter(p, node[p].name, dup[p])
        /\ quiet' = QuietAfter(p, node[p].name, TRUE)
        /\ IF r.err = ""
           THEN /\ nextRV' = nextRV + 1
                /\ Commit(node[p].name, node[p].label)
                /\ UpsertReturns(p, key[p], "created")
           ELSE /\ UNCHANGED <<nextRV, lastCommit>>
                /\ UpsertReturns(p, key[p], r.err)
    /\ UNCHANGED <<received, nrs, delLeft, ret, tries>>

\* CreateOrUpdateNode line 153 and CreateNode, lines 108-117.
CreateNode(p) ==
    /\ pc[p] = "create"
    /\ \E r \in CreateResults(registry, nextRV, node[p]) :
        /\ Answer(r)
        /\ registry' = r.reg
        /\ Called(p, Call("Create", node[p].name, r), TRUE)
        /\ dup' = DupAfter(p, node[p].name, dup[p])
        /\ quiet' = QuietAfter(p, node[p].name, TRUE)
        /\ IF r.err = ""
           THEN /\ nextRV' = nextRV + 1
                /\ Commit(node[p].name, node[p].label)
                /\ UpsertReturns(p, key[p], "created")
           ELSE /\ UNCHANGED <<nextRV, lastCommit>>
                /\ UpsertReturns(p, key[p], r.err)
    /\ UNCHANGED <<received, nrs, delLeft, ret, tries>>

\* UpdateNode, lines 121-131: Get, the version gate, the token.
UpdateNodeGet(p) ==
    /\ pc[p] = "updateNode"
    /\ \E r \in GetResults(registry, node[p].name) :
        /\ Answer(r)
        /\ Called(p, Call("Get", node[p].name, r),
                  \/ AfterUpdateGet(r.err) = "return"
                  \/ checkNodeEdgeVersion(node[p], r.node) # "")
        /\ dup' = DupAfter(p, node[p].name, dup[p])
        /\ IF AfterUpdateGet(r.err) = "return"
           THEN /\ UpsertReturns(p, key[p], r.err)
                /\ quiet' = QuietAfter(p, node[p].name, TRUE)
           ELSE LET c == checkNodeEdgeVersion(node[p], r.node) IN
                IF c # ""
                THEN /\ UpsertReturns(p, key[p], c)
                     /\ quiet' = QuietAfter(p, node[p].name, TRUE)
                ELSE /\ node' = [node EXCEPT ![p] = OutgoingNode(@, r.node)]
                     /\ pc' = [pc EXCEPT ![p] = "update"]
                     /\ quiet' = QuietAfter(p, node[p].name, FALSE)
                     /\ UNCHANGED <<updLeft, key, log, prev>>
    /\ UNCHANGED <<registry, nextRV, received, nrs, delLeft, ret, tries,
                   lastCommit>>

\* UpdateNode, lines 132-145: the write, the retry on conflict.
UpdateNodeWrite(p) ==
    /\ pc[p] = "update"
    /\ \E r \in UpdateResults(registry, nextRV, node[p]) :
        /\ Answer(r)
        /\ registry' = r.reg
        /\ Called(p, Call("Update", node[p].name, r),
                  r.err = "" \/ AfterUpdateError(r.err, tries[p]) # "retry")
        /\ dup' = DupAfter(p, node[p].name, dup[p])
        /\ IF r.err = ""
           THEN /\ nextRV' = nextRV + 1
                /\ Commit(node[p].name, node[p].label)
                /\ UpsertReturns(p, key[p], "updated")
                /\ quiet' = QuietAfter(p, node[p].name, TRUE)
                /\ UNCHANGED tries
           ELSE /\ UNCHANGED <<nextRV, lastCommit>>
                /\ IF AfterUpdateError(r.err, tries[p]) = "retry"
                   THEN /\ pc' = [pc EXCEPT ![p] = "updateNode"]
                        /\ tries' = [tries EXCEPT ![p] = @ + 1]
                        /\ quiet' = QuietAfter(p, node[p].name, FALSE)
                        /\ UNCHANGED <<updLeft, key, node, log, prev>>
                   ELSE /\ UpsertReturns(p, key[p], r.err)
                        /\ quiet' = QuietAfter(p, node[p].name, TRUE)
                        /\ UNCHANGED tries
    /\ UNCHANGED <<received, nrs, delLeft, ret>>

\* Variant: the delete mapping is taken up while update entries are left.
UpdateMapDone_Early(p) ==
    /\ pc[p] = "updateMap"
    /\ pc' = [pc EXCEPT ![p] = "delMap"]
    /\ prev' = [prev EXCEPT ![p] = Nil]
    /\ UNCHANGED <<registry, nextRV, received, faults, nrs, updLeft, delLeft,
                   key, node, tries, ret, log, lastCall, lastCommit, quiet, dup>>

\* handleNodeReport, lines 43-49: the update loop is over, on to DelMap.
UpdateMapDone(p) ==
    /\ pc[p] = "updateMap"
    /\ updLeft[p] = {}
    /\ pc' = [pc EXCEPT ![p] = "delMap"]
    /\ prev' = [prev EXCEPT ![p] = Nil]
    /\ UNCHANGED <<registry, nextRV, received, faults, nrs, updLeft, delLeft,
                   key, node, tries, ret, log, lastCall, lastCommit, quiet, dup>>

\* handleNodeDelMap, lines 55-69, one turn of the range loop with DeleteNode
\* (line 189).
DelMapEntry(p) ==
    /\ pc[p] = "delMap"
    /\ \E k \in delLeft[p] :
        LET e == nrs[p].del[k] IN
        IF e = Nil
        THEN /\ pc' = [pc EXCEPT ![p] = "panicked"]
             /\ UNCHANGED <<registry, nextRV, received, faults, nrs, updLeft,
                            delLeft, key, node, tries, ret, log, prev,
                            lastCall, lastCommit, quiet, dup>>
        ELSE LET u == UniqueResourceName(e) IN
        IF u.err # ""
        THEN /\ Logged(p, Line("del", k, u.err))
             /\ delLeft' = [delLeft EXCEPT ![p] = @ \ {k}]
             /\ UNCHANGED <<registry, nextRV, received, faults, pc, nrs,
                            updLeft, key, node, tries, ret, prev, lastCall,
                            lastCommit, quiet, dup>>
        ELSE \E r \in DeleteResults(registry, u.node.name) :
             /\ Answer(r)
             /\ registry' = r.reg
             /\ Called(p, Call("Delete", u.node.name, r), TRUE)
             /\ Logged(p, Line("del", k, IF r.err = "" THEN "deleted" ELSE r.err))
             /\ delLeft' = [delLeft EXCEPT ![p] = @ \ {k}]
             /\ quiet' = QuietAfter(p, u.node.name, FALSE)
             /\ dup' = DupAfter(p, u.node.name, Nil)
             /\ UNCHANGED <<nextRV, received, pc, nrs, updLeft, key, node,
                            tries, ret, prev, lastCommit>>

\* handleNodeReport, line 51: the report is dropped and nil returned.
Return(p) ==
    /\ pc[p] = "delMap"
    /\ delLeft[p] = {}
    /\ pc' = [pc EXCEPT ![p] = "idle"]
    /\ ret' = [ret EXCEPT ![p] = "ok"]
    /\ nrs' = [nrs EXCEPT ![p] = Nil]
    /\ log' = [log EXCEPT ![p] = EmptyBag]
    /\ dup' = [dup EXCEPT ![p] = Nil]
    /\ quiet' = [quiet EXCEPT ![p] = FALSE]
    /\ tries' = [tries EXCEPT ![p] = 0]
    /\ UNCHANGED <<registry, nextRV, received, faults, updLeft, delLeft, key,
                   node, prev, lastCall, lastCommit>>

\* ------------------------------------------------------------ inputs
VersionLabels == {Itoa(v) : v \in 1..MaxVer}

\* a missing label, a label that is no number, a number written otherwise
OddLabels == {<<>>, <<"x">>, <<"0", "2">>}

Labels == VersionLabels \cup OddLabels

\* What a reporter puts into the rest of its node objects.
StatusOf(p) == IF p = "p1" THEN "s1" ELSE "s2"

Map1(e) == [k \in {"k1"} |-> e]

Map2(e1, e2) == [k \in {"k1", "k2"} |-> IF k = "k1" THEN e1 ELSE e2]

Map3(e1, e2, e3) ==
    [k \in Keys |-> IF k = "k1" THEN e1 ELSE IF k = "k2" THEN e2 ELSE e3]

\* The competing writer: plain updates and deletes of node n1.
WriterEnvelopes(p) ==
    {Encode(Nil, Map1(MkNode("n1", l, StatusOf(p))), Nil) : l \in VersionLabels}
    \cup {Encode(Nil, Nil, Map1(MkNode("n1", Itoa(1), StatusOf(p))))}

\* Envelopes about node n1: one entry, the same update entry twice, an
\* update and a delete of the node, a full list alone, no JSON at all.
UpdNodes(p) == {MkNode("n1", l, StatusOf(p)) : l \in Labels}

UpdEntries(p) == {Nil, MkNode(NoName, Itoa(1), StatusOf(p))} \cup UpdNodes(p)

DelEntries(p) ==
    {Nil, MkNode(NoName, Itoa(1), StatusOf(p)),
     MkNode("n1", Itoa(1), StatusOf(p))}

\* Full lists: an empty one, and one with a node and a null.
FullLists(p) ==
    {[list |-> <<>>],
     [list |-> <<MkNode("n1", Itoa(MaxVer), StatusOf(p)), Nil>>]}

ReporterEnvelopes(p) ==
    {Malformed} \cup {Encode(f, Nil, Nil) : f \in FullLists(p)} \cup
    {Encode(Nil, Map1(e), Nil) : e \in UpdEntries(p)} \cup
    {Encode(Nil, Map2(e, e), Nil) : e \in UpdNodes(p)} \cup
    {Encode(Nil, Nil, Map1(e)) : e \in DelEntries(p)} \cup
    {Encode(Nil, Map1(MkNode("n1", Itoa(1), StatusOf(p))),
                 Map1(MkNode("n1", Itoa(1), StatusOf(p))))}

Envelopes(p) ==
    IF p = "p1" THEN ReporterEnvelopes(p) ELSE WriterEnvelopes(p)

\* Batches: an update entry for each of n1, n2, n3, with or without the
\* edge-version label; the third entry may also be null or unresolvable;
\* with or without a delete entry.
BatchLabels == {<<>>, Itoa(MaxVer)}

BatchEntries(p, n) == {MkNode(n, l, StatusOf(p)) : l \in BatchLabels}

BadEntries(p) == {Nil, MkNode(NoName, Itoa(1), StatusOf(p))}

BatchWriterEnvelopes(p) ==
    {Encode(Nil, Map1(MkNode(n, Itoa(MaxVer), StatusOf(p))), Nil) :
        n \in {"n1", "n2"}}
    \cup {Encode(Nil, Nil, Map1(MkNode("n1", Itoa(1), StatusOf(p))))}

BatchEnvelopes(p) ==
    IF p = "p1"
    THEN {Encode(Nil, Map3(e1, e2, e3), d) :
            e1 \in BatchEntries(p, "n1"), e2 \in BatchEntries(p, "n2"),
            e3 \in BatchEntries(p, "n3") \cup BadEntries(p),
            d \in {Map1(MkNode("n2", Itoa(1), StatusOf(p)))}}
    ELSE BatchWriterEnvelopes(p)

\* ------------------------------------------------------------ specification
Step(p) ==
    \/ UpdateMapEntry(p)
    \/ CreateNode(p)
    \/ UpdateNodeGet(p)
    \/ UpdateNodeWrite(p)
    \/ UpdateMapDone(p)
    \/ DelMapEntry(p)
    \/ Return(p)

Next ==
    \E p \in Procs :
        \/ \E b \in Envelopes(p) : HandleNodeReport(p, b)
        \/ Step(p)

Spec == Init /\ [][Next]_vars

\* The same program where p1 is sent one batch, and p2 writes before,
\* during and after it.
NextBatch ==
    \E p \in Procs :
        \/ /\ p = "p1" => ret[p] = ""
           /\ \E b \in BatchEnvelopes(p) : HandleNodeReport(p, b)
        \/ Step(p)

SpecBatch == Init /\ [][NextBatch]_vars

\* The same program where both processes are writers of node n1 and each
\* process that can take a step eventually takes one: a goroutine that is
\* runnable is run, and a registry call returns.
NextLive ==
    \E p \in Procs :
        \/ \E b \in WriterEnvelopes(p) : HandleNodeReport(p, b)
        \/ Step(p)

SpecLive ==
    Init /\ [][NextLive]_vars /\ \A p \in Procs : WF_vars(Step(p))

\* ------------------------------------------------------------ properties
Parses(l) == Atoi(l).err = ""

Ver(l) == Atoi(l).val

\* The condition of the Version Gate, stated on the two labels.
GateOpen(incoming, stored) ==
    /\ incoming # <<>> /\ stored # <<>>
    /\ Parses(incoming) /\ Parses(stored)
    /\ Ver(incoming) > Ver(stored)

\* This step commits a Create or an Update under name n.
Commits(n) == registry'[n] # Absent /\ registry'[n] # registry[n]

\* This step ends a CreateOrUpdateNode call of p; its outcome is
\* prev'[p].outcome and its entry is nrs[p].upd[prev'[p].key].
Ends(p) == prev'[p] # Nil /\ prev'[p] # prev[p]

\* C1 as claimed: the edge-versions committed under one name by Create and
\* Update are strictly increasing in commit order, deletes in between or not.
C1_CommitsIncrease ==
    [][\A n \in Names :
        (Commits(n) /\ lastCommit[n] # Nil
            /\ Parses(lastCommit[n].label) /\ Parses(registry'[n].label))
        => Ver(registry'[n].label) > Ver(lastCommit[n].label)]_vars

\* C1 as amended: while a node stays in the registry its edge-version only
\* grows: every commit that replaces a stored record carries a parseable
\* edge-version strictly greater than the one it replaces.
C1_UpdatesIncrease ==
    [][\A n \in Names :
        (Commits(n) /\ registry[n] # Absent)
        => GateOpen(registry'[n].label, registry[n].label)]_vars

\* An Update has been committed and the node it wrote is the stored one.
C1_Witness ==
    \E p \in Procs :
        /\ prev[p] # Nil /\ prev[p].outcome = "updated"
        /\ registry[nrs[p].upd[prev[p].key].name] # Absent
        /\ registry[nrs[p].upd[prev[p].key].name].label
             = nrs[p].upd[prev[p].key].label

\* C2: Version Gate.  When UpdateNode has read the stored node, it goes on
\* to the Update only if both labels are non-empty, parse as integers and
\* incoming > stored; in every other case CreateOrUpdateNode returns a
\* version error and the registry is left as it was.
C2_VersionGate ==
    [][\A p \in Procs :
        (/\ pc[p] = "updateNode" /\ pc'[p] # "updateNode"
         /\ faults' = faults
         /\ registry[node[p].name] # Absent)
        => IF GateOpen(node[p].label, registry[node[p].name].label)
           THEN pc'[p] = "update" /\ registry' = registry
           ELSE /\ Ends(p) /\ prev'[p].outcome \in VersionErrors
                /\ pc'[p] # "update"
                /\ registry' = registry /\ nextRV' = nextRV]_vars

\* An update whose own label is a number was rejected because the stored
\* label is missing or is no number.
C2_Witness ==
    \E p \in Procs :
        /\ prev[p] # Nil
        /\ prev[p].outcome \in {"EmptyVersion", "ParseError"}
        /\ Parses(nrs[p].upd[prev[p].key].label)

\* C3: no lost update.  An Update that commits carries an edge-version
\* strictly greater than the one stored at the instant of the commit, and
\* the record it replaces is the very record the operation had read.
C3_NoLostUpdate ==
    [][\A p \in Procs :
        (pc[p] = "update" /\ Ends(p) /\ prev'[p].outcome = "updated")
        => /\ registry[node[p].name] # Absent
           /\ GateOpen(node[p].label, registry[node[p].name].label)
           /\ registry[node[p].name] = lastCall[p].node]_vars

\* An Update was committed after a conflict with a concurrent writer.
C3_Witness ==
    \E p \in Procs :
        prev[p] # Nil /\ prev[p].outcome = "updated" /\ tries[p] >= 1

\* C4: the node about to be sent in an Update carries the token of the node
\* returned by the Get that was the last registry call of the operation, a
\* Get of the same name; it is not the token the envelope came with.
C4_FreshToken ==
    \A p \in Procs :
        pc[p] = "update"
        => /\ lastCall[p].op = "Get" /\ lastCall[p].err = ""
           /\ lastCall[p].name = node[p].name
           /\ node[p].rv = lastCall[p].node.rv
           /\ node[p].rv # nrs[p].upd[key[p]].rv

\* An Update is about to be sent after a conflict, with the record changed
\* since the first attempt.
C4_Witness ==
    \E p \in Procs :
        pc[p] = "update" /\ tries[p] >= 1 /\ node[p].rv > 2

\* C5: conflict convergence.  When CreateOrUpdateNode succeeds, after any
\* number of conflicts, the record stored at that moment is the submitted
\* node, field by field, under a token newly assigned by the registry.
C5_Convergence ==
    [][\A p \in Procs :
        (InUpsert(p) /\ Ends(p) /\ prev'[p].outcome \in Applied)
        => LET e == nrs[p].upd[key[p]] IN
           /\ registry'[e.name] =
                [name |-> e.name, label |-> e.label, status |-> e.status,
                 rv |-> nextRV]
           /\ nextRV' = nextRV + 1
           /\ registry[e.name] # Absent => nextRV > registry[e.name].rv]_vars

\* An update succeeded after two conflicts.
C5_Witness ==
    \E p \in Procs :
        /\ prev[p] # Nil /\ prev[p].outcome = "updated" /\ tries[p] >= 2
        /\ registry[nrs[p].upd[prev[p].key].name].status = StatusOf(p)

\* C6 as claimed: a node found absent is created, on the first read and on
\* every later read alike, so CreateOrUpdateNode never ends with the
\* registry's not-found error.
C6_AbsentIsCreated ==
    \A p \in Procs : prev[p] # Nil => prev[p].outcome # "NotFound"

\* C7: a conflict is never an outcome.  A conflicting Update sends
\* UpdateNode back to its Get, however many conflicts came before, and
\* CreateOrUpdateNode ends only with success, a version error or a store
\* error that is no conflict.
C7_RetryOnConflict ==
    [][\A p \in Procs :
        /\ (/\ pc[p] = "update" /\ lastCall'[p] # lastCall[p]
            /\ faults' = faults
            /\ registry[node[p].name] # Absent
            /\ registry[node[p].name].rv # node[p].rv)
           => /\ pc'[p] = "updateNode" /\ tries'[p] = tries[p] + 1
              /\ log'[p] = log[p] /\ registry' = registry
        /\ Ends(p)
           => prev'[p].outcome \in
                Applied \cup VersionErrors \cup
                {"StoreError", "NotFound", "AlreadyExists"}]_vars

\* An operation has met two conflicts in a row.
C7_Witness == \E p \in Procs : tries[p] >= 2

\* C8 as claimed: when the same update entry is submitted twice in
\* succession and no other registry operation touches the node in between,
\* the second submission is rejected by the Version Gate and the record is
\* the one the first submission left.  Stated for runs without store failures.
C8_SecondRejected ==
    [][\A p \in Procs :
        (dup'[p] # Nil /\ Ends(p) /\ faults' = 0)
        => /\ prev'[p].outcome \in VersionErrors
           /\ registry'[nrs[p].upd[prev'[p].key].name] = dup'[p].snap]_vars

\* C8 as amended: when the first of the two submissions was applied or was
\* rejected by the Version Gate, the second one writes nothing and ends with
\* a Version Gate rejection, or with the error of a failed registry call.
C8_Idempotent ==
    [][\A p \in Procs :
        (/\ dup'[p] # Nil /\ Ends(p)
         /\ dup'[p].first \in Applied \cup VersionErrors)
        => /\ prev'[p].outcome \in VersionErrors \cup {"StoreError"}
           /\ faults' = 0 => prev'[p].outcome \in VersionErrors
           /\ registry'[nrs[p].upd[prev'[p].key].name] = dup'[p].snap
           /\ nextRV' = nextRV]_vars

\* An entry was applied and the same entry, submitted again, was rejected as
\* a duplicate; the record is still the one the first submission wrote.
C8_Witness ==
    \E p \in Procs :
        /\ dup[p] # Nil /\ dup[p].first \in Applied
        /\ prev[p] # Nil /\ prev[p].outcome = "StaleVersion"
        /\ registry[nrs[p].upd[prev[p].key].name] = dup[p].snap
        /\ dup[p].snap # Absent
        /\ dup[p].snap.label = nrs[p].upd[prev[p].key].label

\* The log lines of one entry, and "the entry was attempted exactly once".
LinesOf(lg, map, k) == {l \in BagToSet(lg) : l.map = map /\ l.key = k}

Once(lg, map, k) ==
    /\ Cardinality(LinesOf(lg, map, k)) = 1
    /\ \A l \in LinesOf(lg, map, k) : CopiesIn(l, lg) = 1

\* Process p has nothing left to do for the report it decoded.
Stopped(p) ==
    \/ pc[p] = "panicked"
    \/ pc[p] = "delMap" /\ delLeft[p] = {}

\* C9 as claimed: whatever happens to one entry, every entry of both
\* mappings is attempted exactly once before handleNodeReport is through
\* with the report, and handleNodeReport returns success.
C9_EveryEntryOnce ==
    \A p \in Procs :
        (nrs[p] # Nil /\ Stopped(p))
        => /\ pc[p] # "panicked"
           /\ \A k \in MapKeys(nrs[p].upd) : Once(log[p], "upd", k)
           /\ \A k \in MapKeys(nrs[p].del) : Once(log[p], "del", k)

\* A report with three update entries, for three nodes, of which exactly one
\* has no edge-version label.
OneBad(p) ==
    /\ nrs[p] # Nil /\ MapKeys(nrs[p].upd) = Keys
    /\ \A k \in Keys : nrs[p].upd[k] # Nil /\ nrs[p].upd[k].name # NoName
    /\ \A k1, k2 \in Keys :
          k1 # k2 => nrs[p].upd[k1].name # nrs[p].upd[k2].name
    /\ Cardinality({k \in Keys : nrs[p].upd[k].label = <<>>}) = 1

\* C10 as claimed: once the update loop is over, the two well-formed entries
\* have been applied and the label-less one has caused no Create or Update.
\* Stated for a report handled alone and without store failures.
C10_TwoAppliedOneSkipped ==
    \A p \in Procs :
        (OneBad(p) /\ pc[p] = "delMap" /\ received = 1 /\ faults = 0)
        => \A k \in Keys : \A l \in LinesOf(log[p], "upd", k) :
              l.outcome \in Applied <=> nrs[p].upd[k].label # <<>>

\* C10 as amended: every entry of such a report is attempted exactly once,
\* whatever happens to the others.  The label-less entry is never written by
\* an Update: it is rejected when its node is present and created as given
\* when its node is absent.  A well-formed entry is created when its node is
\* absent, updated when the stored edge-version is a lower number, and
\* rejected by the Version Gate only when it is not.
C10_Batch ==
    [][\A p \in Procs : OneBad(p) =>
        /\ (pc[p] # "delMap" /\ pc'[p] = "delMap")
           => \A k \in Keys : Once(log'[p], "upd", k)
        /\ Ends(p) =>
           LET e == nrs[p].upd[prev'[p].key]
               o == prev'[p].outcome
           IN  /\ o = "created"
                  => registry[e.name] = Absent /\ registry'[e.name] # Absent
                     /\ registry'[e.name].label = e.label
               /\ o = "updated"
                  => e.label # <<>> /\ registry[e.name] # Absent
                     /\ GateOpen(e.label, registry[e.name].label)
               /\ o \in VersionErrors
                  => registry[e.name] # Absent
                     /\ ~GateOpen(e.label, registry[e.name].label)
                     /\ registry' = registry
               /\ (e.label = <<>> /\ registry[e.name] # Absent)
                  => o \notin Applied /\ registry' = registry]_vars

\* The update loop of such a report is over: the label-less entry was
\* rejected by the Version Gate and the other two were applied.
C10_Witness ==
    \E p \in Procs :
        /\ OneBad(p) /\ pc[p] = "delMap"
        /\ \A k \in Keys : \A l \in LinesOf(log[p], "upd", k) :
              IF nrs[p].upd[k].label = <<>> THEN l.outcome = "EmptyVersion"
              ELSE l.outcome \in Applied

\* C11 as claimed: a decode failure is the only thing that keeps
\* handleNodeReport from returning success.  An envelope that does not
\* decode is answered with the decode error and the process goes back to
\* waiting; an envelope that decodes is handled up to the return of nil,
\* whatever its entries are.
C11_OnlyDecodeIsFatal ==
    \A p \in Procs :
        /\ ret[p] = "DecodeError" => pc[p] = "idle" /\ nrs[p] = Nil
        /\ nrs[p] # Nil
           => pc[p] \in {"updateMap", "create", "updateNode", "update",
                         "delMap"}

\* The report has a full list and neither mapping.
FullOnly(r) == r # Nil /\ r.full # Nil /\ r.upd = Nil /\ r.del = Nil

\* C12: full-list no-op.  From the moment a report with only a full list is
\* decoded to the moment handleNodeReport returns, the process makes no
\* registry call, writes no log line and leaves every record as it is, and
\* what it returns is success; the content of the list does not matter.
C12_FullListNoOp ==
    [][\A p \in Procs :
        /\ (nrs[p] = Nil /\ FullOnly(nrs'[p]))
           => /\ pc'[p] = "updateMap"
              /\ registry' = registry /\ lastCall' = lastCall
        /\ (FullOnly(nrs[p]) /\ pc'[p] # pc[p])
           => /\ registry' = registry /\ nextRV' = nextRV
              /\ lastCall' = lastCall /\ faults' = faults
              /\ log'[p] = log[p]
              /\ pc'[p] \in {"delMap", "idle"}
              /\ pc'[p] = "idle" => ret'[p] = "ok"]_vars

\* A report with nothing but a full list of a node and a null has gone
\* through both mapping tests and is about to return, no call made.
C12_Witness ==
    \E p \in Procs :
        /\ FullOnly(nrs[p]) /\ nrs[p].full.list # <<>>
        /\ pc[p] = "delMap" /\ delLeft[p] = {}
        /\ log[p] = EmptyBag /\ lastCall[p] = NoCall

\* C13 as claimed: the registry's not-found answer to a Delete counts as
\* success, so no delete entry ever ends with the not-found error: a delete
\* entry ends "deleted" or with another store error.
C13_NotFoundIsSuccess ==
    \A p \in Procs : \A l \in BagToSet(log[p]) :
        l.map = "del" => l.outcome # "NotFound"

\* C14: delete is unconditional.  The step that handles a delete entry whose
\* identity resolves is one Delete call, with no Get before it: unless the
\* call itself fails, the record under the entry's name is gone after the
\* step, whatever edge-version it had and whatever edge-version the entry
\* carries, and every other record is as before.
C14_DeleteUnconditional ==
    [][\A p \in Procs :
        (/\ pc[p] = "delMap" /\ delLeft'[p] # delLeft[p]
         /\ faults' = faults)
        => LET k == CHOOSE x \in delLeft[p] : x \notin delLeft'[p]
               e == nrs[p].del[k]
           IN  e.name # NoName
               => /\ registry' = [registry EXCEPT ![e.name] = Absent]
                  /\ nextRV' = nextRV
                  /\ Once(log'[p], "del", k)
                  /\ \A l \in LinesOf(log'[p], "del", k) :
                        l.outcome = IF registry[e.name] # Absent
                                    THEN "deleted" ELSE "NotFound"]_vars

\* Two reports were handled: one committed the node at an edge-version above
\* the delete entry's, the other deleted it, and the node is gone.
C14_Witness ==
    \E p \in Procs : \E k \in Keys :
        /\ received = 2 /\ nrs[p] # Nil /\ nrs[p].del # Nil
        /\ k \in DOMAIN nrs[p].del /\ nrs[p].del[k] # Nil
        /\ Line("del", k, "deleted") \in BagToSet(log[p])
        /\ registry[nrs[p].del[k].name] = Absent
        /\ lastCommit[nrs[p].del[k].name] # Nil
        /\ Parses(lastCommit[nrs[p].del[k].name].label)
        /\ Ver(lastCommit[nrs[p].del[k].name].label)
              > Ver(nrs[p].del[k].label)

\* C15: delete resets lineage.  When the Get of CreateOrUpdateNode finds
\* no record, the next call is a Create and the Version Gate is not run;
\* the Create of a node still absent commits the node as given, whatever
\* edge-version was committed under the name before it was deleted, unless
\* the call itself fails.
C15_DeleteResetsLineage ==
    [][\A p \in Procs :
        /\ (pc[p] = "updateMap" /\ pc'[p] \in {"create", "updateNode"})
           => (pc'[p] = "create" <=> registry[node'[p].name] = Absent)
        /\ (/\ pc[p] = "create" /\ pc'[p] # "create"
            /\ faults' = faults /\ registry[node[p].name] = Absent)
           => /\ Ends(p) /\ prev'[p].outcome = "created"
              /\ registry' = [registry EXCEPT ![node[p].name] =
                                 [node[p] EXCEPT !.rv = nextRV]]]_vars

\* Two reports were handled.  The first one wrote node n1 at an
\* edge-version and then deleted it; the update entry of the second one,
\* with the same edge-version, was applied as a creation.
C15_Witness ==
    \E p, q \in Procs : \E k, kq \in Keys :
        /\ p # q /\ received = 2
        /\ \E o \in Applied : Line("upd", k, o) \in BagToSet(log[p])
        /\ Line("del", k, "deleted") \in BagToSet(log[p])
        /\ nrs[p].upd[k].name = nrs[p].del[k].name
        /\ prev[q] # Nil /\ prev[q].key = kq /\ prev[q].outcome = "created"
        /\ nrs[q].upd[kq].name = nrs[p].upd[k].name
        /\ Parses(nrs[q].upd[kq].label) /\ Parses(nrs[p].upd[k].label)
        /\ Ver(nrs[q].upd[kq].label) <= Ver(nrs[p].upd[k].label)
        /\ registry[nrs[q].upd[kq].name] # Absent
        /\ registry[nrs[q].upd[kq].name].label = nrs[q].upd[kq].label

\* C16: ordering inside one report.  As long as the update loop runs, no
\* delete entry has been taken up; when the delete loop runs, every update
\* entry has been handed to CreateOrUpdateNode.  Hence, when the report is
\* the only one handled so far, a node named in both mappings is absent
\* once its Delete has succeeded.
C16_UpdatesBeforeDeletes ==
    \A p \in Procs :
        /\ (nrs[p] # Nil
            /\ pc[p] \in {"updateMap", "create", "updateNode", "update"})
           => /\ delLeft[p] = MapKeys(nrs[p].del)
              /\ \A l \in BagToSet(log[p]) : l.map # "del"
        /\ pc[p] = "delMap"
           => /\ updLeft[p] = {}
              /\ \A k \in MapKeys(nrs[p].upd) : Once(log[p], "upd", k)
              /\ received = 1
                 => \A kd \in MapKeys(nrs[p].del) :
                    \A ku \in MapKeys(nrs[p].upd) :
                       (/\ nrs[p].del[kd] # Nil /\ nrs[p].upd[ku] # Nil
                        /\ nrs[p].del[kd].name = nrs[p].upd[ku].name
                        /\ Line("del", kd, "deleted") \in BagToSet(log[p]))
                       => registry[nrs[p].del[kd].name] = Absent

\* A report alone wrote a node from its update mapping and then deleted it
\* from its delete mapping: the node is absent.
C16_Witness ==
    \E p \in Procs : \E k \in Keys :
        /\ received = 1 /\ pc[p] = "delMap" /\ delLeft[p] = {}
        /\ \E o \in Applied : Line("upd", k, o) \in BagToSet(log[p])
        /\ Line("del", k, "deleted") \in BagToSet(log[p])
        /\ nrs[p].del[k].name = nrs[p].upd[k].name
        /\ registry[nrs[p].del[k].name] = Absent

\* C17: creation race.  Of the operations that have read "not found" for one
\* name, the Create that reaches the registry first commits; a Create that
\* finds the name taken ends its operation with AlreadyExists, at once: no
\* retry, no Get, no version comparison, the record stays as the winner
\* wrote it, whatever edge-version the loser carries.
C17_CreationRace ==
    [][\A p \in Procs :
        (pc[p] = "create" /\ pc'[p] # "create" /\ faults' = faults)
        => /\ Ends(p) /\ pc'[p] = "updateMap" /\ tries'[p] = tries[p]
           /\ prev'[p].outcome = "created" <=> registry[node[p].name] = Absent
           /\ registry[node[p].name] # Absent
              => /\ prev'[p].outcome = "AlreadyExists"
                 /\ registry' = registry /\ nextRV' = nextRV]_vars

\* An operation lost the creation race although its edge-version is higher
\* than the one committed by the winner.
C17_Witness ==
    \E p \in Procs :
        /\ prev[p] # Nil /\ prev[p].outcome = "AlreadyExists"
        /\ registry[nrs[p].upd[prev[p].key].name] # Absent
        /\ registry[nrs[p].upd[prev[p].key].name].status # StatusOf(p)
        /\ Parses(registry[nrs[p].upd[prev[p].key].name].label)
        /\ Parses(nrs[p].upd[prev[p].key].label)
        /\ Ver(nrs[p].upd[prev[p].key].label)
             > Ver(registry[nrs[p].upd[prev[p].key].name].label)

\* C18: termination without outside writers.  Every CreateOrUpdateNode
\* eventually returns.  Each conflict an operation meets is caused by a
\* write committed since its Get, so the conflicts of one operation are no
\* more than the writes committed so far.
C18_Termination ==
    /\ \A p \in Procs : InUpsert(p) ~> ~InUpsert(p)
    /\ [][\A p \in Procs :
            tries'[p] = tries[p] + 1
            => /\ registry[node[p].name] # Absent
               /\ registry[node[p].name].rv > node[p].rv]_vars
    /\ [](\A p \in Procs : tries[p] <= nextRV - 2)

\* An operation has returned after a conflict: the competing write had
\* committed an edge-version not below its own.
C18_Witness ==
    \E p \in Procs :
        prev[p] # Nil /\ prev[p].outcome = "StaleVersion" /\ tries[p] >= 1

\* A stored record whose edge-version label is missing or is no number.
Frozen(r) == r # Absent /\ ~Parses(r.label)

\* C19: a node stored without a usable edge-version label is frozen.  Its
\* record is never replaced, only deleted; a CreateOrUpdateNode that reads
\* it in UpdateNode is rejected by the Version Gate for the label's sake,
\* whatever edge-version it carries, and writes nothing.
C19_Frozen ==
    [][/\ \A n \in Names :
            Frozen(registry[n]) => registry'[n] \in {registry[n], Absent}
       /\ \A p \in Procs :
            (/\ pc[p] = "updateNode" /\ pc'[p] # "updateNode"
             /\ faults' = faults /\ Frozen(registry[node[p].name]))
            => /\ Ends(p)
               /\ prev'[p].outcome \in {"EmptyVersion", "ParseError"}
               /\ registry' = registry /\ nextRV' = nextRV]_vars

\* A node created from a reporter's entry without a usable label is stored,
\* and an update carrying the highest edge-version has been rejected.
C19_Witness ==
    \E p \in Procs :
        /\ prev[p] # Nil
        /\ prev[p].outcome \in {"EmptyVersion", "ParseError"}
        /\ Parses(nrs[p].upd[prev[p].key].label)
        /\ Ver(nrs[p].upd[prev[p].key].label) = MaxVer
        /\ Frozen(registry[nrs[p].upd[prev[p].key].name])
        /\ registry[nrs[p].upd[prev[p].key].name].status = StatusOf("p1")
        /\ registry[nrs[p].upd[prev[p].key].name].rv >= 2

====
